---- MODULE Spec2Model ----
(***************************************************************************)
(* A model of the RAG-FASTAPI repository.                                  *)
(*                                                                         *)
(*   src/main.py  the Query Service: module-level start-up (environment    *)
(*                check, FastAPI app, CORS, one-time RAG setup inside a    *)
(*                try/except) and the two endpoints read_root and          *)
(*                handle_query.                                            *)
(*   src/test.py  run_rag_test: the clean / re-ingest / query job.         *)
(*                                                                         *)
(* The embedding service, the vector database, the LLM and the document    *)
(* reader are external: each call to them either returns or raises, and    *)
(* the model takes both outcomes.                                          *)
(***************************************************************************)
EXTENDS Integers, Sequences, FiniteSets, TLC

\* ------------------------------------------------------------------------
\* Bounds
\* ------------------------------------------------------------------------
\* number of HTTP requests that can be in flight / answered
NumReq == 2
\* longest text the engine's response carries
MaxLen == 2
\* how often the operator runs the job of src/test.py in sequence
NumRuns == 2
\* number of chunks the source document yields
DocChunks == 2
\* largest number of points the collection holds before the first run
MaxPre == 1

\* ------------------------------------------------------------------------
\* Values
\* ------------------------------------------------------------------------
Undefined == "undefined"
NL == "\n"
Alphabet == {"a", NL}
BR == <<"<", "b", "r", ">">>

RECURSIVE StringsOfLen(_)
StringsOfLen(n) ==
    IF n = 0 THEN {<<>>}
    ELSE {Append(s, c) : s \in StringsOfLen(n - 1), c \in Alphabet}

Strings == UNION {StringsOfLen(n) : n \in 0..MaxLen}

\* what query_engine.query can return: a Response whose text is a string,
\* or a Response carrying no text
NoText == "NoText"
Responses == [text : Strings] \cup {[text |-> NoText]}

\* bodies of POST /query that pass validation (question: str)
Questions == {"what is acne?", ""}

Slots == 1..NumReq

\* the embedder before main.py:55 has assigned it
NoEmbed == [model_name |-> Undefined, input_type |-> Undefined]

\* main.py:55-58
ServiceEmbedConfig == [model_name |-> "embed-english-v3.0", input_type |-> "None"]
\* test.py:55-59
IngestEmbedConfig == [model_name |-> "embed-english-v3.0", input_type |-> "search_document"]
\* test.py:77-81
QueryEmbedConfig == [model_name |-> "embed-english-v3.0", input_type |-> "search_query"]

WelcomeMessage == "Welcome to the RAG Chatbot API! Setup is complete."

VARIABLES
    \* ---- src/main.py ----
    pc,               \* position of the module-level code of main.py
    COHERE_API_KEY,   \* TRUE iff os.getenv returned a non-empty value
    QDRANT_URL,
    QDRANT_API_KEY,
    embed_model,      \* module globals: Undefined until assigned
    client,
    vector_store,
    storage_context,
    index,
    llm,
    query_engine,
    log,              \* what main.py printed
    raisedAt,         \* the setup stage whose call raised; "none" if none did
    req,              \* the HTTP requests, one record per slot
    \* ---- src/test.py ----
    tpc,              \* position inside run_rag_test of the current run
    run,              \* number of the current run
    collection,       \* points in collection "second"; -1: no such collection
    hist,             \* per run: what happened
    tlog              \* what test.py printed / the traceback of a crash

mainGlobals == <<COHERE_API_KEY, QDRANT_URL, QDRANT_API_KEY, embed_model, client,
                 vector_store, storage_context, index, llm, query_engine>>
mainVars == <<pc, COHERE_API_KEY, QDRANT_URL, QDRANT_API_KEY, embed_model, client,
              vector_store, storage_context, index, llm, query_engine, log, raisedAt, req>>
testVars == <<tpc, run, collection, hist, tlog>>
vars == <<pc, COHERE_API_KEY, QDRANT_URL, QDRANT_API_KEY, embed_model, client,
          vector_store, storage_context, index, llm, query_engine, log, raisedAt, req,
          tpc, run, collection, hist, tlog>>

\* ------------------------------------------------------------------------
\* src/main.py : pure parts
\* ------------------------------------------------------------------------
\* str(response), main.py:99
Str(response) ==
    IF response.text = NoText THEN <<"N", "o", "n", "e">> ELSE response.text

ReplaceFirstOnly(s) ==
    IF \E i \in 1..Len(s) : s[i] = NL
    THEN LET i == CHOOSE k \in 1..Len(s) :
                    s[k] = NL /\ \A j \in 1..(k - 1) : s[j] # NL
         IN SubSeq(s, 1, i - 1) \o BR \o SubSeq(s, i + 1, Len(s))
    ELSE s

\* raw_text.replace('\n', '<br>'), main.py:100
RECURSIVE Replace(_)
Replace(s) ==
    IF s = <<>> THEN <<>>
    ELSE (IF Head(s) = NL THEN BR ELSE <<Head(s)>>) \o Replace(Tail(s))

NoRequest ==
    [kind |-> "none", pc |-> "idle", question |-> "-", asked |-> "-",
     response |-> [text |-> NoText], outcome |-> "none", exc |-> "none",
     status |-> 0, message |-> "", answer |-> <<>>]

\* ------------------------------------------------------------------------
\* Initial state
\* ------------------------------------------------------------------------
NoRun ==
    [startAbsent |-> FALSE, startCount |-> 0, stages |-> <<>>,
     deleteRaised |-> FALSE, failed |-> "none", complete |-> FALSE,
     countAfter |-> -1, ended |-> FALSE,
     ingest_embed_model |-> NoEmbed, query_embed_model |-> NoEmbed]

MainInit ==
    /\ pc = "load_env"
    /\ COHERE_API_KEY = FALSE
    /\ QDRANT_URL = FALSE
    /\ QDRANT_API_KEY = FALSE
    /\ embed_model = NoEmbed
    /\ client = Undefined
    /\ vector_store = Undefined
    /\ storage_context = Undefined
    /\ index = Undefined
    /\ llm = Undefined
    /\ query_engine = Undefined
    /\ log = <<>>
    /\ raisedAt = "none"
    /\ req = [r \in Slots |-> NoRequest]

TestInitCommon ==
    /\ tpc = "start"
    /\ run = 1
    /\ hist = [i \in 1..NumRuns |-> NoRun]
    /\ tlog = <<>>

\* the Query Service starts; the job of test.py is not running
Init ==
    /\ MainInit
    /\ TestInitCommon
    /\ collection = -1

\* ------------------------------------------------------------------------
\* src/main.py : module-level code
\* ------------------------------------------------------------------------
Range(s) == {s[i] : i \in 1..Len(s)}

FatalEnv == "--> FATAL ERROR: One or more environment variables are missing!"
FatalSetup == "--> FATAL ERROR during setup"

\* load_dotenv and the three os.getenv calls
LoadEnv ==
    /\ pc = "load_env"
    /\ \E k \in BOOLEAN, u \in BOOLEAN, q \in BOOLEAN :
          /\ COHERE_API_KEY' = k
          /\ QDRANT_URL' = u
          /\ QDRANT_API_KEY' = q
    /\ log' = Append(log, "[1/12]")
    /\ pc' = "check_env"
    /\ UNCHANGED <<embed_model, client, vector_store, storage_context, index, llm,
                   query_engine, raisedAt, req>>
    /\ UNCHANGED testVars

\* if not all([...]): print FATAL ...; else: print [2/12].  Both branches fall
\* through to the rest of the module.
CheckEnv ==
    /\ pc = "check_env"
    /\ IF ~(COHERE_API_KEY /\ QDRANT_URL /\ QDRANT_API_KEY)
       THEN log' = Append(log, FatalEnv)
       ELSE log' = Append(log, "[2/12]")
    /\ pc' = "init_app"
    /\ UNCHANGED mainGlobals
    /\ UNCHANGED <<raisedAt, req>>
    /\ UNCHANGED testVars

InitApp ==
    /\ pc = "init_app"
    /\ log' = log \o <<"[3/12]", "[4/12]">>
    /\ pc' = "cors"
    /\ UNCHANGED mainGlobals
    /\ UNCHANGED <<raisedAt, req>>
    /\ UNCHANGED testVars

AddCors ==
    /\ pc = "cors"
    /\ log' = log \o <<"[5/12]", "[6/12]">>
    /\ pc' = "embed"
    /\ UNCHANGED mainGlobals
    /\ UNCHANGED <<raisedAt, req>>
    /\ UNCHANGED testVars

NextStage(stage) ==
    CASE stage = "embed" -> "qdrant"
      [] stage = "qdrant" -> "vector_store"
      [] stage = "vector_store" -> "storage_context"
      [] stage = "storage_context" -> "index"
      [] stage = "index" -> "llm"
      [] stage = "llm" -> "query_engine"
      [] stage = "query_engine" -> "serving"

SetupStages == {"embed", "qdrant", "vector_store", "storage_context", "index",
                "llm", "query_engine"}

\* the progress line printed on entering a stage, if it has one
Progress(stage) ==
    CASE stage = "embed" -> <<"[7/12]">>
      [] stage = "qdrant" -> <<"[8/12]">>
      [] stage = "vector_store" -> <<"[9/12]">>
      [] stage = "index" -> <<"[10/12]">>
      [] stage = "llm" -> <<"[11/12]">>
      [] OTHER -> <<>>

ExceptContinue(stage) ==
    /\ raisedAt' = stage
    /\ log' = log \o Progress(stage) \o <<FatalSetup>>
    /\ pc' = NextStage(stage)

\* a call of the try block raised: control leaves the block for
\* `except Exception as e: print(...)`, and the module goes on to define the
\* endpoints
Except(stage) ==
    /\ raisedAt' = stage
    /\ log' = log \o Progress(stage) \o <<FatalSetup>>
    /\ pc' = "serving"

\* a call of the try block returned
Proceed(stage) ==
    /\ raisedAt' = raisedAt
    /\ log' = log \o Progress(stage)
             \o (IF stage = "query_engine" THEN <<"[12/12]">> ELSE <<>>)
    /\ pc' = NextStage(stage)

SetupEmbed ==
    /\ pc = "embed"
    /\ \/ /\ Proceed("embed")
          /\ embed_model' = ServiceEmbedConfig
       \/ /\ Except("embed")
          /\ UNCHANGED embed_model
    /\ UNCHANGED <<COHERE_API_KEY, QDRANT_URL, QDRANT_API_KEY, client, vector_store,
                   storage_context, index, llm, query_engine, req>>
    /\ UNCHANGED testVars

SetupQdrant ==
    /\ pc = "qdrant"
    /\ \/ /\ Proceed("qdrant")
          /\ client' = "QdrantClient"
       \/ /\ Except("qdrant")
          /\ UNCHANGED client
    /\ UNCHANGED <<COHERE_API_KEY, QDRANT_URL, QDRANT_API_KEY, embed_model,
                   vector_store, storage_context, index, llm, query_engine, req>>
    /\ UNCHANGED testVars

SetupVectorStore ==
    /\ pc = "vector_store"
    /\ \/ /\ Proceed("vector_store")
          /\ vector_store' = "QdrantVectorStore(second)"
       \/ /\ Except("vector_store")
          /\ UNCHANGED vector_store
    /\ UNCHANGED <<COHERE_API_KEY, QDRANT_URL, QDRANT_API_KEY, embed_model, client,
                   storage_context, index, llm, query_engine, req>>
    /\ UNCHANGED testVars

SetupStorageContext ==
    /\ pc = "storage_context"
    /\ \/ /\ Proceed("storage_context")
          /\ storage_context' = "StorageContext"
       \/ /\ Except("storage_context")
          /\ UNCHANGED storage_context
    /\ UNCHANGED <<COHERE_API_KEY, QDRANT_URL, QDRANT_API_KEY, embed_model, client,
                   vector_store, index, llm, query_engine, req>>
    /\ UNCHANGED testVars

SetupIndex ==
    /\ pc = "index"
    /\ \/ /\ Proceed("index")
          /\ index' = "VectorStoreIndex"
       \/ /\ Except("index")
          /\ UNCHANGED index
    /\ UNCHANGED <<COHERE_API_KEY, QDRANT_URL, QDRANT_API_KEY, embed_model, client,
                   vector_store, storage_context, llm, query_engine, req>>
    /\ UNCHANGED testVars

SetupLLM ==
    /\ pc = "llm"
    /\ \/ /\ Proceed("llm")
          /\ llm' = "Cohere(command-r-plus)"
       \/ /\ Except("llm")
          /\ UNCHANGED llm
    /\ UNCHANGED <<COHERE_API_KEY, QDRANT_URL, QDRANT_API_KEY, embed_model, client,
                   vector_store, storage_context, index, query_engine, req>>
    /\ UNCHANGED testVars

SetupQueryEngine ==
    /\ pc = "query_engine"
    /\ \/ /\ Proceed("query_engine")
          /\ query_engine' = "RetrieverQueryEngine"
       \/ /\ Except("query_engine")
          /\ UNCHANGED query_engine
    /\ UNCHANGED <<COHERE_API_KEY, QDRANT_URL, QDRANT_API_KEY, embed_model, client,
                   vector_store, storage_context, index, llm, req>>
    /\ UNCHANGED testVars

\* ------------------------------------------------------------------------
\* src/main.py : the endpoints
\* ------------------------------------------------------------------------
\* a request arrives: GET /, or POST /query with a body that validates
Receive(r) ==
    /\ pc = "serving"
    /\ req[r].kind = "none"
    /\ \/ req' = [req EXCEPT ![r] = [NoRequest EXCEPT !.kind = "root",
                                                     !.pc = "received"]]
       \/ \E q \in Questions :
             req' = [req EXCEPT ![r] = [NoRequest EXCEPT !.kind = "query",
                                                        !.pc = "received",
                                                        !.question = q]]
    /\ UNCHANGED mainGlobals
    /\ UNCHANGED <<pc, log, raisedAt>>
    /\ UNCHANGED testVars

ReadRootReadiness(r) ==
    /\ pc = "serving"
    /\ req[r].kind = "root"
    /\ req[r].pc = "received"
    /\ req' = [req EXCEPT ![r].pc = "done",
                          ![r].outcome = "ok",
                          ![r].status = IF query_engine = Undefined THEN 503 ELSE 200,
                          ![r].message = WelcomeMessage]
    /\ UNCHANGED mainGlobals
    /\ UNCHANGED <<pc, log, raisedAt>>
    /\ UNCHANGED testVars

\* def read_root(): return {"message": ...}
ReadRoot(r) ==
    /\ pc = "serving"
    /\ req[r].kind = "root"
    /\ req[r].pc = "received"
    /\ req' = [req EXCEPT ![r].pc = "done",
                          ![r].outcome = "ok",
                          ![r].status = 200,
                          ![r].message = WelcomeMessage]
    /\ UNCHANGED mainGlobals
    /\ UNCHANGED <<pc, log, raisedAt>>
    /\ UNCHANGED testVars

\* the handler raised and nothing in main.py catches it: the exception reaches
\* the framework, which answers 500
Unhandled(r, exc, arg) ==
    [req[r] EXCEPT !.pc = "done", !.asked = arg, !.outcome = "unhandled",
                   !.exc = exc, !.status = 500]

\* the handler returned {"answer": formatted_text}
Answered(r, response) ==
    [req[r] EXCEPT !.pc = "done", !.asked = req[r].question,
                   !.response = response, !.outcome = "ok", !.status = 200,
                   !.answer = Replace(Str(response))]

HandleQueryDropsEngine(r) ==
    /\ pc = "serving"
    /\ req[r].kind = "query"
    /\ req[r].pc = "received"
    /\ IF query_engine = Undefined
       THEN /\ req' = [req EXCEPT ![r] = Unhandled(r, "NameError", "-")]
            /\ UNCHANGED query_engine
       ELSE \/ /\ req' = [req EXCEPT ![r] = Unhandled(r, "QueryError", req[r].question)]
               /\ query_engine' = Undefined
            \/ /\ \E response \in Responses :
                     req' = [req EXCEPT ![r] = Answered(r, response)]
               /\ UNCHANGED query_engine
    /\ UNCHANGED <<COHERE_API_KEY, QDRANT_URL, QDRANT_API_KEY, embed_model, client,
                   vector_store, storage_context, index, llm>>
    /\ UNCHANGED <<pc, log, raisedAt>>
    /\ UNCHANGED testVars

\* async def handle_query(request): the whole handler.  It has no await, so it
\* runs on the event loop without yielding.
\*   line 98  query_engine is an unbound global (NameError), or the call
\*            raises, or it returns a response
\*   line 99-101  str, replace, return
HandleQuery(r) ==
    /\ pc = "serving"
    /\ req[r].kind = "query"
    /\ req[r].pc = "received"
    /\ IF query_engine = Undefined
       THEN req' = [req EXCEPT ![r] = Unhandled(r, "NameError", "-")]
       ELSE \/ req' = [req EXCEPT ![r] = Unhandled(r, "QueryError", req[r].question)]
            \/ \E response \in Responses :
                  req' = [req EXCEPT ![r] = Answered(r, response)]
    /\ UNCHANGED mainGlobals
    /\ UNCHANGED <<pc, log, raisedAt>>
    /\ UNCHANGED testVars

Next ==
    \/ LoadEnv
    \/ CheckEnv
    \/ InitApp
    \/ AddCors
    \/ SetupEmbed
    \/ SetupQdrant
    \/ SetupVectorStore
    \/ SetupStorageContext
    \/ SetupIndex
    \/ SetupLLM
    \/ SetupQueryEngine
    \/ \E r \in Slots : Receive(r)
    \/ \E r \in Slots : ReadRoot(r)
    \/ \E r \in Slots : HandleQuery(r)

Spec == Init /\ [][Next]_vars

\* ------------------------------------------------------------------------
\* src/test.py : run_rag_test
\* ------------------------------------------------------------------------
\* the operator runs the job; the collection holds anything
TestInit ==
    /\ MainInit
    /\ TestInitCommon
    /\ collection \in (-1)..MaxPre

Terminated == {"returned", "crashed", "done"}

\* the run's record after the stage `stage` ran
Ran(stage) == [hist[run] EXCEPT !.stages = Append(@, stage)]

\* the run's record when the function returns or the process dies in `stage`
Ended(h, count) == [h EXCEPT !.ended = TRUE, !.countAfter = count]

\* number of points a write of n chunks leaves: the vector store creates the
\* collection if it is missing and adds the nodes under fresh ids
Added(n) == (IF collection = -1 THEN 0 ELSE collection) + n

\* lines 16-25: load_dotenv, os.getenv, `if not all(...): print; return`
TLoadEnv ==
    /\ tpc = "start"
    /\ hist[run].stages = <<>>
    /\ \E present \in BOOLEAN :
          LET h == [Ran("env") EXCEPT !.startAbsent = (collection = -1),
                                       !.startCount = collection]
          IN IF present
             THEN /\ tpc' = "connect"
                  /\ hist' = [hist EXCEPT ![run] = h]
                  /\ tlog' = Append(tlog, "Environment variables loaded.")
             ELSE /\ tpc' = "returned"
                  /\ hist' = [hist EXCEPT ![run] =
                                 Ended([h EXCEPT !.failed = "env"], collection)]
                  /\ tlog' = Append(tlog, "ERROR: environment variables are missing.")
    /\ UNCHANGED <<run, collection>>
    /\ UNCHANGED mainVars

\* lines 28-29: the client constructor is outside every try block
TConnect ==
    /\ tpc = "connect"
    /\ \/ /\ tpc' = "delete"
          /\ hist' = [hist EXCEPT ![run] = Ran("connect")]
          /\ tlog' = Append(tlog, "Connected to Qdrant.")
       \/ /\ tpc' = "crashed"
          /\ hist' = [hist EXCEPT ![run] =
                         Ended([Ran("connect") EXCEPT !.failed = "connect"], collection)]
          /\ tlog' = Append(tlog, "Traceback")
    /\ UNCHANGED <<run, collection>>
    /\ UNCHANGED mainVars

TDeleteAbortsOnError ==
    /\ tpc = "delete"
    /\ \/ /\ collection' = -1
          /\ hist' = [hist EXCEPT ![run] = Ran("delete")]
          /\ tlog' = Append(tlog, "Old collection deleted.")
          /\ tpc' = "load"
       \/ /\ UNCHANGED collection
          /\ hist' = [hist EXCEPT ![run] =
                         Ended([Ran("delete") EXCEPT !.deleteRaised = TRUE,
                                                      !.failed = "delete"], collection)]
          /\ tlog' = Append(tlog, "Could not delete collection")
          /\ tpc' = "returned"
    /\ UNCHANGED run
    /\ UNCHANGED mainVars

\* lines 35-40: try: delete_collection; except Exception: print a warning.
\* Whatever made the call raise, the function goes on with line 43.
TDelete ==
    /\ tpc = "delete"
    /\ \/ /\ collection' = -1
          /\ hist' = [hist EXCEPT ![run] = Ran("delete")]
          /\ tlog' = Append(tlog, "Old collection deleted.")
       \/ /\ UNCHANGED collection
          /\ hist' = [hist EXCEPT ![run] = [Ran("delete") EXCEPT !.deleteRaised = TRUE]]
          /\ tlog' = Append(tlog, "Could not delete collection")
    /\ tpc' = "load"
    /\ UNCHANGED run
    /\ UNCHANGED mainVars

\* lines 43-51: try: load_data; except Exception as e: print; return
TLoad ==
    /\ tpc = "load"
    /\ \/ /\ tpc' = "ingest"
          /\ hist' = [hist EXCEPT ![run] = Ran("load")]
          /\ tlog' = Append(tlog, "Loaded document(s)")
       \/ /\ tpc' = "returned"
          /\ hist' = [hist EXCEPT ![run] =
                         Ended([Ran("load") EXCEPT !.failed = "load"], collection)]
          /\ tlog' = Append(tlog, "ERROR: Could not load documents")
    /\ UNCHANGED <<run, collection>>
    /\ UNCHANGED mainVars

\* lines 54-70: embedder, vector store, storage context, from_documents, and
\* the completion message.  Nothing catches an exception here: the process
\* dies with whatever was written so far.
TIngest ==
    /\ tpc = "ingest"
    /\ \/ /\ collection' = Added(DocChunks)
          /\ tpc' = "build_engine"
          /\ hist' = [hist EXCEPT ![run] = [Ran("ingest") EXCEPT !.complete = TRUE,
                                               !.ingest_embed_model = IngestEmbedConfig]]
          /\ tlog' = Append(tlog, "Ingestion complete.")
       \/ /\ \E c \in {collection} \cup {Added(k) : k \in 0..(DocChunks - 1)} :
                /\ collection' = c
                /\ hist' = [hist EXCEPT ![run] =
                               Ended([Ran("ingest") EXCEPT !.failed = "ingest"], c)]
          /\ tpc' = "crashed"
          /\ tlog' = Append(tlog, "Traceback")
    /\ UNCHANGED run
    /\ UNCHANGED mainVars

\* lines 73-92: query embedder, index, llm, query engine
TBuildEngine ==
    /\ tpc = "build_engine"
    /\ \/ /\ tpc' = "test_query"
          /\ hist' = [hist EXCEPT ![run] =
                         [Ran("build_engine") EXCEPT !.query_embed_model = QueryEmbedConfig]]
          /\ tlog' = Append(tlog, "Query engine is ready.")
       \/ /\ tpc' = "crashed"
          /\ hist' = [hist EXCEPT ![run] =
                         Ended([Ran("build_engine") EXCEPT !.failed = "build_engine"],
                               collection)]
          /\ tlog' = Append(tlog, "Traceback")
    /\ UNCHANGED <<run, collection>>
    /\ UNCHANGED mainVars

\* lines 95-101: the test query
TTestQuery ==
    /\ tpc = "test_query"
    /\ \/ /\ tpc' = "done"
          /\ hist' = [hist EXCEPT ![run] = Ended(Ran("test_query"), collection)]
          /\ tlog' = Append(tlog, "Bot: ...")
       \/ /\ tpc' = "crashed"
          /\ hist' = [hist EXCEPT ![run] =
                         Ended([Ran("test_query") EXCEPT !.failed = "test_query"],
                               collection)]
          /\ tlog' = Append(tlog, "Traceback")
    /\ UNCHANGED <<run, collection>>
    /\ UNCHANGED mainVars

\* the operator runs the job again
TRunAgain ==
    /\ tpc \in Terminated
    /\ run < NumRuns
    /\ run' = run + 1
    /\ tpc' = "start"
    /\ UNCHANGED <<collection, hist, tlog>>
    /\ UNCHANGED mainVars

TestNext ==
    \/ TLoadEnv
    \/ TConnect
    \/ TDelete
    \/ TLoad
    \/ TIngest
    \/ TBuildEngine
    \/ TTestQuery
    \/ TRunAgain

IngestSpec == TestInit /\ [][TestNext]_vars

\* ------------------------------------------------------------------------
\* Properties
\* ------------------------------------------------------------------------
EnvComplete == COHERE_API_KEY /\ QDRANT_URL /\ QDRANT_API_KEY

QueryDone(r) == req[r].kind = "query" /\ req[r].pc = "done"
RootDone(r) == req[r].kind = "root" /\ req[r].pc = "done"

\* the handler returned a body of its own with an error status
StructuredError(r) == req[r].outcome = "ok" /\ req[r].status # 200

\* number of newlines of s before position i
NLBefore(s, i) == Cardinality({j \in 1..(i - 1) : s[j] = NL})

\* where character i of s lands once every earlier newline has become BR
Pos(s, i) == i + (Len(BR) - 1) * NLBefore(s, i)

\* out is raw with every newline, and nothing else, replaced by BR
IsBrForm(raw, out) ==
    /\ Len(out) = Len(raw) + (Len(BR) - 1) * NLBefore(raw, Len(raw) + 1)
    /\ \A i \in 1..Len(raw) :
          IF raw[i] = NL
          THEN SubSeq(out, Pos(raw, i), Pos(raw, i) + Len(BR) - 1) = BR
          ELSE out[Pos(raw, i)] = raw[i]

\* the text of a response object as Python's str gives it
TextOf(response) ==
    IF response.text = NoText THEN <<"N", "o", "n", "e">> ELSE response.text

\* a 200 answer built from the engine's response to the request's own question
GoodAnswer(r) ==
    /\ req[r].outcome = "ok"
    /\ req[r].status = 200
    /\ req[r].asked = req[r].question
    /\ NL \notin Range(req[r].answer)
    /\ IsBrForm(TextOf(req[r].response), req[r].answer)

\* C1: when one of CO_API_KEY, QDRANT_URL, QDRANT_API_KEY was absent at
\* start-up, the service is up and every answered POST /query got a
\* non-ready response from the handler itself: no 200, and no exception left
\* to the framework.
C1_MissingEnvUnavailable ==
    \A r \in Slots :
        (QueryDone(r) /\ ~EnvComplete) =>
            (pc = "serving" /\ StructuredError(r))

\* C2: with the query engine built, a request whose query_engine.query call
\* raised was answered by the handler with a structured non-200 error; the
\* exception did not reach the framework.
C2_QueryErrorCaught ==
    \A r \in Slots :
        (QueryDone(r) /\ query_engine # Undefined /\ req[r].exc = "QueryError") =>
            StructuredError(r)

\* C3 as written: whenever the query engine is initialized, every handled
\* POST /query is a 200 whose answer is the engine's response to the unmodified
\* question with every newline replaced by <br>.
C3_AlwaysAnswers ==
    \A r \in Slots :
        (QueryDone(r) /\ query_engine # Undefined) => GoodAnswer(r)

\* C3 amended: whenever the query engine is initialized and its query call
\* returned, the POST /query is a 200 whose answer is the engine's response to
\* the unmodified question with every newline replaced by <br>, so the answer
\* holds no raw newline.
C3_AnswersWhenEngineReturns ==
    \A r \in Slots :
        (QueryDone(r) /\ query_engine # Undefined /\ req[r].exc = "none") =>
            GoodAnswer(r)

\* a 200 answer whose response text had two newlines
C3_Witness ==
    \E r \in Slots :
        /\ QueryDone(r)
        /\ req[r].status = 200
        /\ req[r].response.text # NoText
        /\ NLBefore(TextOf(req[r].response), Len(TextOf(req[r].response)) + 1) = 2

\* everything of the service but the request slots
serviceState == <<pc, COHERE_API_KEY, QDRANT_URL, QDRANT_API_KEY, embed_model, client,
                  vector_store, storage_context, index, llm, query_engine, log, raisedAt>>

RootAnswered(r) ==
    req[r].kind = "root" /\ req[r].pc = "received" /\ req'[r].pc = "done"

\* C4: in every state of the running process, whatever became of the setup,
\* an answered GET / is a 200 with the fixed welcome message, and answering it
\* changes neither the service's state nor any other request.
C4_RootAlwaysWelcome ==
    /\ [](\A r \in Slots :
             RootDone(r) => /\ req[r].outcome = "ok"
                            /\ req[r].status = 200
                            /\ req[r].message = WelcomeMessage)
    /\ [][\A r \in Slots :
             RootAnswered(r) =>
                 /\ UNCHANGED serviceState
                 /\ \A o \in Slots \ {r} : req'[o] = req[o]]_vars

\* GET / answered after a setup stage raised with an environment variable missing
C4_Witness ==
    \E r \in Slots : RootDone(r) /\ raisedAt # "none" /\ ~EnvComplete

StageNo(stage) ==
    CASE stage = "embed" -> 1
      [] stage = "qdrant" -> 2
      [] stage = "vector_store" -> 3
      [] stage = "storage_context" -> 4
      [] stage = "index" -> 5
      [] stage = "llm" -> 6
      [] stage = "query_engine" -> 7

\* the stage's global has been assigned
Assigned(stage) ==
    CASE stage = "embed" -> embed_model # NoEmbed
      [] stage = "qdrant" -> client # Undefined
      [] stage = "vector_store" -> vector_store # Undefined
      [] stage = "storage_context" -> storage_context # Undefined
      [] stage = "index" -> index # Undefined
      [] stage = "llm" -> llm # Undefined
      [] stage = "query_engine" -> query_engine # Undefined

\* C5: once a setup stage has raised, the exception was caught and logged, the
\* module went on to serve HTTP, neither the failing stage nor any later one
\* assigned its global or printed its progress line, and no POST /query is
\* ever answered with a 200.
C5_SetupFailureStops ==
    raisedAt # "none" =>
        /\ pc = "serving"
        /\ log[Len(log)] = FatalSetup
        /\ \A st \in SetupStages :
              StageNo(st) >= StageNo(raisedAt) => ~Assigned(st)
        /\ \A st \in SetupStages :
              StageNo(st) > StageNo(raisedAt) =>
                  \A m \in Range(Progress(st)) : m \notin Range(log)
        /\ "[12/12]" \notin Range(log)
        /\ \A r \in Slots : QueryDone(r) => req[r].status # 200

\* the index load raised, and a POST /query was handled afterwards
C5_Witness ==
    /\ raisedAt = "index"
    /\ \E r \in Slots : QueryDone(r)

\* C6: the Query Service's embedder names the model the ingestion embedder
\* names, ingestion is tagged search_document, and the Query Service's
\* embedder is tagged search_query.
C6_SameModelModesDiffer ==
    embed_model # NoEmbed =>
        /\ embed_model.model_name = IngestEmbedConfig.model_name
        /\ IngestEmbedConfig.input_type = "search_document"
        /\ embed_model.input_type = "search_query"

\* C7: two runs in sequence that both report completion leave the same number
\* of points in the collection, whatever it held before.
C7_SameCountBothRuns ==
    \A i \in 1..(NumRuns - 1) :
        (/\ hist[i].complete /\ hist[i].ended
         /\ hist[i + 1].complete /\ hist[i + 1].ended) =>
            hist[i].countAfter = hist[i + 1].countAfter

\* the run's delete raised although the collection existed
DeleteFailed(i) == hist[i].deleteRaised /\ ~hist[i].startAbsent

\* C8: a run in which a stage failed (delete for a reason other than absence,
\* load, or embedding/write) logged it, ran no later stage and reported no
\* completion.
C8_StageFailureAborts ==
    \A i \in 1..NumRuns :
        /\ DeleteFailed(i) =>
              /\ "load" \notin Range(hist[i].stages)
              /\ ~(i = run /\ tpc = "load")
              /\ ~hist[i].complete
        /\ hist[i].failed = "load" =>
              /\ "ingest" \notin Range(hist[i].stages)
              /\ ~hist[i].complete
        /\ hist[i].failed = "ingest" =>
              /\ "build_engine" \notin Range(hist[i].stages)
              /\ ~hist[i].complete

\* the run found no collection and its delete raised
AbsentDeleteRaised(i) == hist[i].deleteRaised /\ hist[i].startAbsent

\* C9: a run that found no collection and whose delete raised was not aborted
\* by it: the document load runs next, the embedding/write runs once the load
\* has returned, and a run that reports completion leaves the collection
\* holding the document's chunks.
C9_AbsentDeleteTolerated ==
    \A i \in 1..NumRuns :
        AbsentDeleteRaised(i) =>
            /\ hist[i].failed # "delete"
            /\ \/ i = run /\ tpc = "load"
               \/ "load" \in Range(hist[i].stages)
            /\ ("load" \in Range(hist[i].stages) /\ hist[i].failed # "load") =>
                  \/ i = run /\ tpc = "ingest"
                  \/ "ingest" \in Range(hist[i].stages)
            /\ hist[i].complete =>
                  /\ DocChunks > 0
                  /\ IF hist[i].ended
                     THEN hist[i].countAfter = DocChunks
                     ELSE collection = DocChunks

\* such a run has ended after reporting completion
C9_Witness ==
    \E i \in 1..NumRuns :
        /\ AbsentDeleteRaised(i)
        /\ hist[i].complete
        /\ hist[i].ended
        /\ hist[i].countAfter = DocChunks

\* the result a POST /query for the question of slot r gets when it is the
\* only request, in the current state of the module
AloneResult(r) ==
    IF query_engine = Undefined
    THEN req[r].outcome = "unhandled" /\ req[r].exc = "NameError"
    ELSE \/ /\ req[r].outcome = "unhandled"
            /\ req[r].exc = "QueryError"
            /\ req[r].asked = req[r].question
         \/ GoodAnswer(r)

\* C10: once the module serves, no step writes a module global (the query
\* engine is assigned at most once, at start-up), no step changes a response
\* already given, and every response is one its request gets when handled
\* alone.
C10_RequestsIndependent ==
    /\ [](\A r \in Slots :
             /\ RootDone(r) => req[r].status = 200 /\ req[r].message = WelcomeMessage
             /\ QueryDone(r) => AloneResult(r))
    /\ [][/\ pc = "serving" =>
                /\ UNCHANGED mainGlobals
                /\ \A r \in Slots : req[r].pc = "done" => req'[r] = req[r]
          /\ query_engine # Undefined => query_engine' = query_engine]_vars

\* a POST /query was answered while a GET / and it were in flight together
C10_Witness ==
    \E r \in Slots, o \in Slots :
        /\ r # o
        /\ QueryDone(r)
        /\ req[r].status = 200
        /\ req[o].kind = "root"
        /\ req[o].pc = "received"

====
